---- MODULE Spec2Model ----
(***************************************************************************)
(* Model of api-specs/generate-types.py: the Swagger-to-TypeScript type    *)
(* mapper (swagger_type_to_typescript), the recursive interface builder    *)
(* (generate_interface) and the driver loop of main.                       *)
(*                                                                         *)
(* Representation                                                          *)
(*   - a fully-qualified model name 'Dto.Appointment' is the sequence of   *)
(*     its '.'-delimited segments, <<"Dto", "Appointment">>; split('.')    *)
(*     is then the sequence itself and [-1] its last element;              *)
(*   - a property name and a description are sequences of one-character    *)
(*     strings, so that sorting and line-break replacement are computed    *)
(*     character by character as Python does;                              *)
(*   - a dict lookup that finds nothing (None) is None for 'type' and      *)
(*     'format', the empty sequence for '$ref', 'enum', 'description',     *)
(*     and for 'items' (which otherwise is the one-element sequence        *)
(*     holding the item dict);                                             *)
(*   - an output line is a record: its kind, its text as the sequence of   *)
(*     the pieces the f-string joins, and two annotations that are not     *)
(*     part of the text: the model whose block the line belongs to and     *)
(*     the property a field line renders.                                  *)
(***************************************************************************)
EXTENDS Naturals, Sequences, FiniteSets

VARIABLES
    definitions,         \* main: spec['definitions'], name -> schema node
    models_to_generate,  \* main: the ordered root list
    prop_details,        \* mapper run: the property dict being converted
    ts_type,             \* mapper run: the rendered type expression
    pc,                  \* main: "loop" | "done"; the mapper run: "map" | "mapped"
    mi,                  \* main: position of the for loop in models_to_generate
    stack,               \* the active generate_interface calls, innermost last
    steps,               \* history: the number of steps taken so far
    bodies,              \* history: names whose body (line 65 onwards) was entered
    processed,           \* main: the set shared by every generate_interface call
    summary,             \* main: the numbers the final print statements report
    output_lines         \* main: the output buffer

vars == <<definitions, models_to_generate, mi, processed, output_lines, stack,
          pc, summary, bodies, steps, prop_details, ts_type>>

\* what dict.get() returns for a missing 'type' or 'format'
None == "None"

(***************************************************************************)
(* Bounds of the checked instances: the nesting depth of array items, the  *)
(* number of referencing properties of a model, the number of properties   *)
(* of the model whose order is permuted, the length of a description.      *)
(***************************************************************************)
MaxNesting == 2
MaxDeps == 1
MaxProps == 2
MaxDescLen == 2

----------------------------------------------------------------------------
(***************************************************************************)
(* swagger_type_to_typescript                                              *)
(***************************************************************************)

\* model_name.split('.')[-1]
ShortName(name) == name[Len(name)]

\* ' | '.join([f'"{e}"' for e in enum]), for a non-empty enum
RECURSIVE JoinQuoted(_)
JoinQuoted(enum) ==
    IF Len(enum) = 1
    THEN "\"" \o enum[1] \o "\""
    ELSE "\"" \o enum[1] \o "\"" \o " | " \o JoinQuoted(Tail(enum))

\* type_map.get(prop_type, 'unknown')
TypeMapGet(prop_type) ==
    CASE prop_type = "integer" -> "number"
      [] prop_type = "number"  -> "number"
      [] prop_type = "string"  -> "string"
      [] prop_type = "boolean" -> "boolean"
      [] prop_type = "object"  -> "Record<string, unknown>"
      [] OTHER                 -> "unknown"

\* prop_items.get('type', 'unknown')
ItemTypeOf(item) == IF item.type = None THEN "unknown" ELSE item.type

RECURSIVE swagger_type_to_typescript(_, _, _, _, _)

\* variant: the enum is looked at before the reference
EnumBeforeReference(prop_type, prop_format, prop_ref, prop_items, enum) ==
    IF enum # <<>> THEN JoinQuoted(enum)
    ELSE IF prop_ref # <<>> THEN ShortName(prop_ref)
    ELSE IF prop_type = "array" THEN
        IF prop_items # <<>> THEN
            LET item == prop_items[1] IN
            IF item.ref # <<>> THEN ShortName(item.ref) \o "[]"
            ELSE swagger_type_to_typescript(ItemTypeOf(item), item.format,
                                            <<>>, <<>>, <<>>) \o "[]"
        ELSE "unknown[]"
    ELSE TypeMapGet(prop_type)

swagger_type_to_typescript(prop_type, prop_format, prop_ref, prop_items, enum) ==
    IF prop_ref # <<>> THEN ShortName(prop_ref)
    ELSE IF enum # <<>> THEN JoinQuoted(enum)
    ELSE IF prop_type = "array" THEN
        IF prop_items # <<>> THEN
            LET item == prop_items[1] IN
            IF item.ref # <<>> THEN ShortName(item.ref) \o "[]"
            ELSE swagger_type_to_typescript(ItemTypeOf(item), item.format,
                                            <<>>, <<>>, <<>>) \o "[]"
        ELSE "unknown[]"
    ELSE LET base_type == TypeMapGet(prop_type) IN
         IF prop_format = "date-time" /\ base_type = "string"
         THEN "string"
         ELSE base_type

\* the call of lines 112-118: every attribute of the property dict is passed
TsTypeOf(details) ==
    swagger_type_to_typescript(details.type, details.format, details.ref,
                               details.items, details.enum)

----------------------------------------------------------------------------
(***************************************************************************)
(* Inputs of the mapper run.                                               *)
(***************************************************************************)
Foo == <<"Dto", "Foo">>

Details(type, format, ref, items, enum, description) ==
    [type |-> type, format |-> format, ref |-> ref, items |-> items,
     enum |-> enum, description |-> description]

TopTypes == {None, "integer", "number", "string", "boolean", "object", "array", "widget"}
ItemTypes == {None, "string", "array"}
Formats == {None, "date-time"}
Refs == {<<>>, Foo}
Enums == {<<>>, <<"B", "A">>}

\* item dicts nested at most n deep
RECURSIVE ItemDetails(_)
ItemDetails(n) ==
    { Details(t, None, r, i, e, <<>>) :
        t \in ItemTypes, r \in Refs, e \in Enums,
        i \in {<<>>} \cup (IF n = 0 THEN {} ELSE { <<d>> : d \in ItemDetails(n - 1) }) }

PropDetails ==
    { Details(t, f, r, i, e, <<>>) :
        t \in TopTypes, f \in Formats, r \in Refs, e \in Enums,
        i \in {<<>>} \cup { <<d>> : d \in ItemDetails(MaxNesting - 1) } }

InitMap ==
    /\ prop_details \in PropDetails
    /\ ts_type = None
    /\ pc = "map"
    /\ definitions = <<>>
    /\ models_to_generate = <<>>
    /\ mi = 1
    /\ processed = {}
    /\ output_lines = <<>>
    /\ stack = <<>>
    /\ summary = <<>>
    /\ bodies = <<>>
    /\ steps = 0

Convert ==
    /\ pc = "map"
    /\ ts_type' = TsTypeOf(prop_details)
    /\ pc' = "mapped"
    /\ UNCHANGED <<definitions, models_to_generate, mi, processed, output_lines,
                   stack, summary, bodies, steps, prop_details>>

SpecMap == InitMap /\ [][Convert]_vars

----------------------------------------------------------------------------
(***************************************************************************)
(* generate_interface                                                      *)
(***************************************************************************)

\* code points of the characters property names are written with
Ord(c) ==
    CASE c = "C" -> 67 [] c = "I" -> 73 [] c = "N" -> 78
      [] c = "a" -> 97 [] c = "d" -> 100 [] c = "x" -> 120

\* Python's str < str: by code point, a proper prefix first
RECURSIVE StrLess(_, _)
StrLess(a, b) ==
    IF b = <<>> THEN FALSE
    ELSE IF a = <<>> THEN TRUE
    ELSE IF Ord(Head(a)) # Ord(Head(b)) THEN Ord(Head(a)) < Ord(Head(b))
    ELSE StrLess(Tail(a), Tail(b))

\* sorted(properties.items()): the keys of a dict are distinct, so the key of
\* each (key, value) pair decides every comparison
RECURSIVE Sorted(_)
Sorted(items) ==
    IF items = <<>> THEN <<>>
    ELSE LET m == CHOOSE i \in DOMAIN items :
                    \A j \in DOMAIN items : ~StrLess(items[j].name, items[i].name)
             rest == [j \in 1..(Len(items) - 1) |->
                        IF j < m THEN items[j] ELSE items[j + 1]]
         IN <<items[m]>> \o Sorted(rest)

\* s.replace('\r\n', ' ')
RECURSIVE ReplaceCRLF(_)
ReplaceCRLF(s) ==
    IF s = <<>> THEN <<>>
    ELSE IF Len(s) >= 2 /\ s[1] = "\r" /\ s[2] = "\n"
         THEN <<" ">> \o ReplaceCRLF(Tail(Tail(s)))
         ELSE <<s[1]>> \o ReplaceCRLF(Tail(s))

\* s.replace('\n', ' ')
ReplaceLF(s) == [i \in DOMAIN s |-> IF s[i] = "\n" THEN " " ELSE s[i]]

Whitespace == {" ", "\n", "\r", "\t"}

\* s.strip()
RECURSIVE LStrip(_)
LStrip(s) == IF s # <<>> /\ Head(s) \in Whitespace THEN LStrip(Tail(s)) ELSE s

RECURSIVE RStrip(_)
RStrip(s) ==
    IF s # <<>> /\ s[Len(s)] \in Whitespace
    THEN RStrip(SubSeq(s, 1, Len(s) - 1))
    ELSE s

Strip(s) == RStrip(LStrip(s))

\* line 123: prop_desc.replace('\r\n', ' ').replace('\n', ' ').strip()
CleanDesc(prop_desc) == Strip(ReplaceLF(ReplaceCRLF(prop_desc)))

Line(kind, text, model, prop) ==
    [kind |-> kind, text |-> text, model |-> model, prop |-> prop]

Plain(text) == Line("text", <<text>>, <<>>, <<>>)

\* lines 94-97: the comment block of the model's description
DescriptionLines(model_name, description) ==
    IF description # <<>>
    THEN << Line("text", <<"/**">>, model_name, <<>>),
            Line("doc", <<" * ">> \o description, model_name, <<>>),
            Line("text", <<" */">>, model_name, <<>>) >>
    ELSE <<>>

\* line 99
InterfaceLine(model_name) ==
    Line("interface", <<"export interface ", ShortName(model_name), " {">>,
         model_name, <<>>)

\* lines 109-110
OptionalMarker(prop_name, required_fields) ==
    IF prop_name \in required_fields THEN "" ELSE "?"

\* lines 102-126: the lines of one property
PropertyLines(model_name, item, required_fields) ==
    LET prop_desc == item.details.description
        clean_desc == CleanDesc(prop_desc)
    IN (IF prop_desc # <<>>
        THEN << Line("propdoc", <<"  /** ">> \o clean_desc \o <<" */">>,
                     model_name, item.name) >>
        ELSE <<>>)
       \o << Line("field",
                  <<"  ">> \o item.name
                    \o << OptionalMarker(item.name, required_fields), ": ",
                          TsTypeOf(item.details), ";" >>,
                  model_name, item.name) >>

\* variant: the properties are rendered in the order the dict yields them
InsertionOrder(properties) == properties

\* line 101: the order in which the properties are rendered
RenderOrder(properties) == Sorted(properties)

RECURSIVE AllPropertyLines(_, _, _)
AllPropertyLines(model_name, items, required_fields) ==
    IF items = <<>> THEN <<>>
    ELSE PropertyLines(model_name, Head(items), required_fields)
         \o AllPropertyLines(model_name, Tail(items), required_fields)

\* lines 93-129: what the call appends after its dependencies
OwnLines(model_name, model_def) ==
    DescriptionLines(model_name, model_def.description)
    \o << InterfaceLine(model_name) >>
    \o AllPropertyLines(model_name, RenderOrder(model_def.properties),
                        model_def.required)
    \o << Line("text", <<"}">>, model_name, <<>>),
          Line("text", <<"">>, model_name, <<>>) >>

Frame(model_name) ==
    [model_name |-> model_name, lines |-> <<>>, k |-> 1, at |-> "entry"]

Top == stack[Len(stack)]

\* variant: only a call that is still active counts (the innermost frame is
\* the call that asks)
OnCallStack(model_name) ==
    \E i \in 1..(Len(stack) - 1) : stack[i].model_name = model_name

\* variant: the guard is missing
NeverProcessed(model_name) == FALSE

\* line 63: model_name in processed
AlreadyProcessed(model_name) == model_name \in processed

\* return: the caller's lines.extend(dep_lines) (lines 83, 91), or main's
\* output_lines.extend(interface_lines) (line 195)
Return(lines) ==
    IF Len(stack) = 1
    THEN /\ stack' = <<>>
         /\ output_lines' = output_lines \o lines
    ELSE /\ stack' = [SubSeq(stack, 1, Len(stack) - 1) EXCEPT
                        ![Len(stack) - 1].lines = @ \o lines]
         /\ UNCHANGED output_lines

\* a call stands at line 63
AtEntry == stack # <<>> /\ Top.at = "entry"

\* lines 63-64
GuardReturn ==
    /\ steps' = steps + 1
    /\ AtEntry
    /\ AlreadyProcessed(Top.model_name)
    /\ Return(<<>>)
    /\ UNCHANGED <<definitions, models_to_generate, mi, processed, pc, summary,
                   bodies, prop_details, ts_type>>

\* lines 65-76
Enter ==
    /\ steps' = steps + 1
    /\ AtEntry
    /\ ~AlreadyProcessed(Top.model_name)
    /\ processed' = processed \cup {Top.model_name}
    /\ bodies' = Append(bodies, Top.model_name)
    /\ IF definitions[Top.model_name].properties = <<>>
       THEN Return(Top.lines)
       ELSE /\ stack' = [stack EXCEPT ![Len(stack)].at = "ref"]
            /\ UNCHANGED output_lines
    /\ UNCHANGED <<definitions, models_to_generate, mi, pc, summary,
                   prop_details, ts_type>>

CurrentDetails == definitions[Top.model_name].properties[Top.k].details

\* a call stands in the loop of line 79, at a property
InLoop ==
    /\ stack # <<>>
    /\ Top.at \in {"ref", "items"}
    /\ Top.k <= Len(definitions[Top.model_name].properties)

\* a call has left the loop of line 79
LoopOver ==
    /\ stack # <<>>
    /\ Top.at = "ref"
    /\ Top.k > Len(definitions[Top.model_name].properties)

\* main stands at the head of the loop of line 192
AtLoopHead == pc = "loop" /\ stack = <<>>

\* variant: a property's $ref is not followed
RefNotFollowed(details) == <<>>

\* lines 80-81: the model a property's $ref makes the call recurse into
\* (<<>>: none)
RefDependency(details) ==
    IF details.ref # <<>> /\ details.ref \in DOMAIN definitions
    THEN details.ref ELSE <<>>

\* variant: the $ref of array items is not followed
ItemsNotFollowed(details) == <<>>

\* lines 86-89: the model the $ref of an array property's items recurses into
ItemsDependency(details) ==
    LET item_ref == IF details.items = <<>> THEN <<>> ELSE details.items[1].ref
    IN IF details.type = "array" /\ item_ref # <<>> /\ item_ref \in DOMAIN definitions
       THEN item_ref ELSE <<>>

\* lines 80-83
DepRef ==
    /\ steps' = steps + 1
    /\ InLoop
    /\ Top.at = "ref"
    /\ LET prop_ref == RefDependency(CurrentDetails)
           here == [stack EXCEPT ![Len(stack)].at = "items"]
       IN IF prop_ref # <<>>
          THEN stack' = Append(here, Frame(prop_ref))
          ELSE stack' = here
    /\ UNCHANGED <<definitions, models_to_generate, mi, processed, output_lines,
                   pc, summary, bodies, prop_details, ts_type>>

\* lines 86-91
DepItems ==
    /\ steps' = steps + 1
    /\ InLoop
    /\ Top.at = "items"
    /\ LET item_ref == ItemsDependency(CurrentDetails)
           here == [stack EXCEPT ![Len(stack)].at = "ref",
                                 ![Len(stack)].k = @ + 1]
       IN IF item_ref # <<>>
          THEN stack' = Append(here, Frame(item_ref))
          ELSE stack' = here
    /\ UNCHANGED <<definitions, models_to_generate, mi, processed, output_lines,
                   pc, summary, bodies, prop_details, ts_type>>

\* lines 93-131
Emit ==
    /\ steps' = steps + 1
    /\ LoopOver
    /\ Return(Top.lines \o OwnLines(Top.model_name, definitions[Top.model_name]))
    /\ UNCHANGED <<definitions, models_to_generate, mi, processed, pc, summary,
                   bodies, prop_details, ts_type>>

----------------------------------------------------------------------------
(***************************************************************************)
(* main                                                                    *)
(***************************************************************************)

\* lines 173-188
HeaderLines ==
    << Plain("/**"),
       Plain(" * MinBody Public API v6 TypeScript Type Definitions"),
       Plain(" * "),
       Plain(" * Auto-generated from official OpenAPI specification"),
       Plain(" * Source: https://api.mindbodyonline.com/public/v6/swagger/doc"),
       Plain(" * Generated: 2025-11-24"),
       Plain(" * "),
       Plain(" * DO NOT EDIT MANUALLY - Regenerate from spec using generate-types.py"),
       Plain(" */"),
       Plain(""),
       Plain("// ============================================================================"),
       Plain("// Core Appointment Types"),
       Plain("// ============================================================================"),
       Plain("") >>

\* lines 198-222
UtilityLines ==
    << Plain(""),
       Plain("// ============================================================================"),
       Plain("// Utility Types"),
       Plain("// ============================================================================"),
       Plain(""),
       Plain("/**"),
       Plain(" * Generic paginated response wrapper"),
       Plain(" */"),
       Plain("export interface PaginatedResponse<T> {"),
       Plain("  /** Array of results */"),
       Plain("  Items?: T[];"),
       Plain("  /** Pagination metadata */"),
       Plain("  PaginationResponse?: PaginationResponse;"),
       Plain("}"),
       Plain(""),
       Plain("/**"),
       Plain(" * Appointment response (uses \"Appointments\" key)"),
       Plain(" */"),
       Plain("export interface AppointmentResponse {"),
       Plain("  Appointments?: Appointment[];"),
       Plain("  PaginationResponse?: PaginationResponse;"),
       Plain("}"),
       Plain("") >>

\* lines 192-195: one iteration of the for loop, up to the call
MainNext ==
    /\ steps' = steps + 1
    /\ AtLoopHead
    /\ mi <= Len(models_to_generate)
    /\ mi' = mi + 1
    /\ LET model_name == models_to_generate[mi]
       IN IF model_name \in DOMAIN definitions
          THEN stack' = <<Frame(model_name)>>
          ELSE stack' = stack
    /\ UNCHANGED <<definitions, models_to_generate, processed, output_lines, pc,
                   summary, bodies, prop_details, ts_type>>

\* lines 197-231
MainFinish ==
    /\ steps' = steps + 1
    /\ AtLoopHead
    /\ mi > Len(models_to_generate)
    /\ output_lines' = output_lines \o UtilityLines
    /\ summary' = [models_generated |-> Cardinality(processed),
                   lines_of_code |-> Len(output_lines')]
    /\ pc' = "done"
    /\ UNCHANGED <<definitions, models_to_generate, mi, processed, stack,
                   bodies, prop_details, ts_type>>

Next == MainNext \/ GuardReturn \/ Enter \/ DepRef \/ DepItems \/ Emit \/ MainFinish

----------------------------------------------------------------------------
(***************************************************************************)
(* Inputs of a generation run: the definitions of the loaded document and  *)
(* the root list.  Three families of documents are drawn:                  *)
(*   - reference graphs over three models, two of which share their last   *)
(*     name segment; a model is absent, has no properties, or has up to    *)
(*     MaxDeps properties that reference a model; the references of one    *)
(*     document are all direct ($ref) or all through array items; the     *)
(*     root list holds one or two names;                                   *)
(*   - one model whose properties are given in any order, with any         *)
(*     required list;                                                      *)
(*   - one model with a description and a property with a description.     *)
(***************************************************************************)
Appointment == <<"Dto", "Appointment">>
Client == <<"Dto", "Client">>
CommonAppointment == <<"Common", "Appointment">>

ModelNames == {Appointment, Client, CommonAppointment}

Node(properties, required, description) ==
    [properties |-> properties, required |-> required, description |-> description]

Item(name, details) == [name |-> name, details |-> details]

RefTo(target) == Details(None, None, target, <<>>, <<>>, <<>>)

ArrayOf(target) == Details("array", None, <<>>, <<RefTo(target)>>, <<>>, <<>>)

DepKinds == {"ref", "array"}

DepDetails(kind) ==
    { IF kind = "ref" THEN RefTo(t) ELSE ArrayOf(t) : t \in ModelNames }

\* the i-th property of a model of the graph family: x, xx, xxx, ...
DepName(i) == [j \in 1..i |-> "x"]

DepProperties(kind) ==
    UNION { { [i \in 1..n |-> Item(DepName(i), ds[i])] : ds \in [1..n -> DepDetails(kind)] } :
            n \in 0..MaxDeps }

GraphDefinitions ==
    UNION { [S -> { Node(p, {}, <<>>) : p \in DepProperties(kind) }] :
            S \in SUBSET ModelNames, kind \in DepKinds }

\* one root, or two (the same name twice included)
RootLists == { <<a>> : a \in ModelNames } \cup { <<a, b>> : a, b \in ModelNames }

PropNames == { <<"I">>, <<"I", "d">>, <<"N">>, <<"a">> }

Integer == Details("integer", None, <<>>, <<>>, <<>>, <<>>)

\* sequences of properties with distinct names: the items() of a dict
OrderedProperties ==
    UNION { { [i \in 1..n |-> Item(ns[i], Integer)] :
              ns \in { f \in [1..n -> PropNames] :
                         \A i, j \in 1..n : i # j => f[i] # f[j] } } :
            n \in 1..MaxProps }

FieldDefinitions ==
    { [m \in {Client} |-> Node(p, r, <<>>)] :
        p \in OrderedProperties, r \in SUBSET PropNames }

DescChars == {"a", " ", "\n", "\r"}

Descriptions == UNION { [1..n -> DescChars] : n \in 0..MaxDescLen }

DocDefinitions ==
    { [m \in {Client} |->
         Node(<<Item(<<"I", "d">>, Details("integer", None, <<>>, <<>>, <<>>, pd))>>,
              {}, md)] :
        pd \in Descriptions, md \in Descriptions }

Init ==
    /\ \/ definitions \in GraphDefinitions /\ models_to_generate \in RootLists
       \/ definitions \in FieldDefinitions /\ models_to_generate = <<Client>>
       \/ definitions \in DocDefinitions /\ models_to_generate = <<Client>>
    /\ mi = 1
    /\ processed = {}
    /\ output_lines = HeaderLines
    /\ stack = <<>>
    /\ pc = "loop"
    /\ summary = <<>>
    /\ bodies = <<>>
    /\ steps = 0
    /\ prop_details = <<>>
    /\ ts_type = None

Spec == Init /\ [][Next]_vars

----------------------------------------------------------------------------
(***************************************************************************)
(* Vocabulary of the properties below, stated over the finished output.    *)
(***************************************************************************)
Done == pc = "done"

Mapped == pc = "mapped"

\* positions of the declaration headers generate_interface emitted for model n
Declarations(n) ==
    { i \in DOMAIN output_lines :
        output_lines[i].kind = "interface" /\ output_lines[i].model = n }

Declared == { n \in DOMAIN definitions : Declarations(n) # {} }

\* positions of the field lines
FieldLines == { i \in DOMAIN output_lines : output_lines[i].kind = "field" }

\* the property dict a field line renders
DetailsAt(i) ==
    LET items == definitions[output_lines[i].model].properties
        k == CHOOSE k \in DOMAIN items : items[k].name = output_lines[i].prop
    IN items[k].details

\* a property is a reference to e, or an array whose items reference e
RefersTo(details, e) ==
    \/ details.ref = e
    \/ /\ details.type = "array"
       /\ details.items # <<>>
       /\ details.items[1].ref = e

\* a field of definition d refers to e
References(d, e) ==
    \E k \in DOMAIN definitions[d].properties :
        RefersTo(definitions[d].properties[k].details, e)

RECURSIVE Closure(_, _)
Closure(S, n) ==
    IF n = 0 THEN S
    ELSE Closure(S \cup { e \in DOMAIN definitions : \E d \in S : References(d, e) },
                 n - 1)

\* e is d, or a chain of references leads from d to e
Reaches(d, e) == e \in Closure({d}, Cardinality(DOMAIN definitions))

\* d lies on a reference cycle (a self-reference included)
OnCycle(d) ==
    \E e \in DOMAIN definitions : References(d, e) /\ Reaches(e, d)

\* the reference a rendered type expression shows: a bare short name or a
\* short name followed by [] (<<>>: the expression shows none)
ShownReference(details) ==
    IF details.ref # <<>> THEN details.ref
    ELSE IF details.enum # <<>> THEN <<>>
    ELSE IF details.type = "array" /\ details.items # <<>> THEN details.items[1].ref
    ELSE <<>>

\* ascending lexicographic order of two names, by code point
LexBefore(a, b) ==
    \/ Len(a) < Len(b) /\ \A i \in 1..Len(a) : a[i] = b[i]
    \/ \E k \in 1..Len(a) :
          /\ k <= Len(b)
          /\ \A i \in 1..(k - 1) : a[i] = b[i]
          /\ Ord(a[k]) < Ord(b[k])

----------------------------------------------------------------------------
(***************************************************************************)
(* C1  Dependency ordering.                                                *)
(***************************************************************************)

\* C1 as stated: in the finished output, for every pair of definitions D, E
\* with a field of D referring to E (directly or as array items), every
\* declaration of E stands strictly before every declaration of D, cycles and
\* self-references included.
DependencyOrderingAnyGraph ==
    Done =>
        \A d, e \in DOMAIN definitions :
            References(d, e) =>
                \A i \in Declarations(d), j \in Declarations(e) : j < i

\* C1 amended: the same ordering for every pair D, E where E is not D and no
\* chain of references leads from E back to D; E is declared strictly before
\* D or not at all.
DependencyOrdering ==
    Done =>
        \A d, e \in DOMAIN definitions :
            (References(d, e) /\ ~Reaches(e, d)) =>
                \A i \in Declarations(d), j \in Declarations(e) : j < i

\* a single root whose dependency does not lead back to it, both declared
DependencyOrderingWitness ==
    /\ Done
    /\ \E d, e \in DOMAIN definitions :
          /\ References(d, e)
          /\ ~Reaches(e, d)
          /\ Declarations(d) # {}
          /\ Declarations(e) # {}
          /\ models_to_generate = <<d>>

(***************************************************************************)
(* C2  Reference invariant.                                                *)
(***************************************************************************)

\* C2 as stated: every reference shown on a field line names a definition
\* declared earlier in the output than that line, or a name absent from the
\* definitions.
ReferenceInvariantAsStated ==
    Done =>
        \A i \in FieldLines :
            LET e == ShownReference(DetailsAt(i)) IN
            e # <<>> =>
                \/ e \notin DOMAIN definitions
                \/ \E j \in Declarations(e) : j < i

\* C2 amended: every reference shown on a field line names a definition
\* declared earlier in the output than that line, or a name absent from the
\* definitions, or a definition without properties (which is never
\* declared), or another definition from which a chain of references leads
\* back to the owner of the field line (which may be declared later).
ReferenceInvariant ==
    Done =>
        \A i \in FieldLines :
            LET e == ShownReference(DetailsAt(i))
                d == output_lines[i].model
            IN e # <<>> =>
                \/ e \notin DOMAIN definitions
                \/ \E j \in Declarations(e) : j < i
                \/ definitions[e].properties = <<>>
                \/ e # d /\ Reaches(e, d)

\* an array property whose item type is another definition, declared earlier
ReferenceInvariantWitness ==
    /\ Done
    /\ \E i \in FieldLines :
          LET e == ShownReference(DetailsAt(i)) IN
          /\ e # <<>>
          /\ e \in DOMAIN definitions
          /\ e # output_lines[i].model
          /\ DetailsAt(i).type = "array"
          /\ \E j \in Declarations(e) : j < i

(***************************************************************************)
(* C3  No duplication.                                                     *)
(***************************************************************************)

\* C3: when the run is over, every definition that was reached and has at
\* least one property has exactly one declaration in the output.
NoDuplication ==
    Done =>
        \A n \in processed :
            definitions[n].properties # <<>> => Cardinality(Declarations(n)) = 1

\* two different roots that share a dependency, each of the three declared
NoDuplicationWitness ==
    /\ Done
    /\ Len(models_to_generate) = 2
    /\ LET a == models_to_generate[1]
           b == models_to_generate[2]
       IN /\ a # b
          /\ {a, b} \subseteq Declared
          /\ \E e \in Declared \ {a, b} : References(a, e) /\ References(b, e)

(***************************************************************************)
(* C4  No two declarations of one short name.                              *)
(***************************************************************************)

RECURSIVE PropertyCount(_)
PropertyCount(S) ==
    IF S = {} THEN 0
    ELSE LET n == CHOOSE n \in S : TRUE
         IN Len(definitions[n].properties) + PropertyCount(S \ {n})

\* the number of steps a run can take: per root one loop iteration and one
\* call, per property at most two calls and two loop steps, per definition
\* one emission, and the final step of main
StepBound ==
    2 * Len(models_to_generate) + 4 * PropertyCount(DOMAIN definitions)
      + Cardinality(DOMAIN definitions) + 1

\* some step of the run can be taken: a call stands at its guard, in its
\* loop or behind it, or main stands at the head of its loop
StepRemains == AtEntry \/ InLoop \/ LoopOver \/ AtLoopHead

\* C5: the run terminates (a step remains until main is done, and the number
\* of steps never exceeds StepBound), no body is entered twice, and when the
\* run is over every reached definition on a reference cycle has exactly one
\* declaration.
CycleTermination ==
    /\ steps <= StepBound
    /\ (~Done => StepRemains)
    /\ \A i, j \in DOMAIN bodies : bodies[i] = bodies[j] => i = j
    /\ Done =>
          \A n \in processed : OnCycle(n) => Cardinality(Declarations(n)) = 1

\* two definitions that reference each other, both declared
CycleTerminationWitness ==
    /\ Done
    /\ \E a, b \in Declared : a # b /\ References(a, b) /\ References(b, a)

(***************************************************************************)
(* C6  Array items are rendered by the mapper itself.                      *)
(***************************************************************************)

\* C6 as stated: an array property with an item dict renders as the mapper's
\* rendering of the item dict followed by [], and without one as unknown[].
ArrayItemsRenderedRecursively ==
    (/\ Mapped
     /\ prop_details.ref = <<>>
     /\ prop_details.enum = <<>>
     /\ prop_details.type = "array") =>
        IF prop_details.items = <<>>
        THEN ts_type = "unknown[]"
        ELSE ts_type = TsTypeOf(prop_details.items[1]) \o "[]"

(***************************************************************************)
(* C7  Resolution priority of the mapper.                                  *)
(***************************************************************************)
LiteralUnion(enum) ==
    LET quoted(i) == "\"" \o enum[i] \o "\""
        upto[i \in 1..Len(enum)] ==
            IF i = 1 THEN quoted(1) ELSE upto[i - 1] \o " | " \o quoted(i)
    IN upto[Len(enum)]

PrimitiveTable ==
    [t \in {"integer", "number", "string", "boolean", "object"} |->
        IF t \in {"integer", "number"} THEN "number"
        ELSE IF t = "object" THEN "Record<string, unknown>"
        ELSE t]

ElementExpressions ==
    {"Foo", "number", "string", "boolean", "Record<string, unknown>", "unknown",
     "unknown[]"}

\* C7: the first matching rule decides, in the order reference, enum, array,
\* primitive; the reference renders its last segment, the enum its quoted
\* literals joined by " | " in input order, the array an element expression
\* followed by [], the primitive kinds by the table and any other or absent
\* kind as unknown; the format never matters and there is always a result.
ResolutionPriority ==
    Mapped =>
        LET d == prop_details IN
        IF d.ref # <<>> THEN ts_type = d.ref[Len(d.ref)]
        ELSE IF d.enum # <<>> THEN ts_type = LiteralUnion(d.enum)
        ELSE IF d.type = "array"
             THEN \E x \in ElementExpressions : ts_type = x \o "[]"
        ELSE IF d.type \in DOMAIN PrimitiveTable THEN ts_type = PrimitiveTable[d.type]
        ELSE ts_type = "unknown"

\* a property that carries every marker at once
ResolutionPriorityWitness ==
    /\ Mapped
    /\ prop_details.ref # <<>>
    /\ prop_details.enum # <<>>
    /\ prop_details.type = "array"
    /\ prop_details.items # <<>>
    /\ prop_details.format = "date-time"
    /\ ts_type = "Foo"

(***************************************************************************)
(* C8  Normalization of the declaration's description.                     *)
(***************************************************************************)

\* C8 as stated: the line of a declaration's comment block that carries the
\* description holds it normalized as a property's description is, with its
\* line breaks replaced by spaces and its ends trimmed.
DeclarationDocNormalized ==
    Done =>
        \A i \in DOMAIN output_lines :
            output_lines[i].kind = "doc" =>
                output_lines[i].text
                  = <<" * ">> \o CleanDesc(definitions[output_lines[i].model].description)

(***************************************************************************)
(* C9  The reported number of models.                                      *)
(***************************************************************************)

\* C9 as stated: the number of models the run reports equals the number of
\* distinct declarations generate_interface emitted.
ReportedCountIsDeclarationCount ==
    Done => summary.models_generated = Cardinality(Declared)

(***************************************************************************)
(* C10  Order of the field lines and the optional marker.                  *)
(***************************************************************************)

\* positions of the field lines of model n
FieldLinesOf(n) == { i \in FieldLines : output_lines[i].model = n }

\* the piece of a field line that follows the property name
MarkerAt(i) == output_lines[i].text[Len(output_lines[i].prop) + 2]

\* C10: whatever the order in which a definition's properties are given, its
\* declaration holds one field line per property, in ascending lexicographic
\* order of the property names, and the line carries the marker ? exactly
\* when the property is not in the required list.
FieldOrderAndMarkers ==
    Done =>
        \A n \in Declared :
            LET items == definitions[n].properties
                L == FieldLinesOf(n)
            IN /\ \A k \in DOMAIN items :
                     Cardinality({ i \in L : output_lines[i].prop = items[k].name }) = 1
               /\ Cardinality(L) = Len(items)
               /\ \A i, j \in L :
                     i < j => LexBefore(output_lines[i].prop, output_lines[j].prop)
               /\ \A i \in L :
                     MarkerAt(i) = (IF output_lines[i].prop \in definitions[n].required
                                    THEN "" ELSE "?")

\* properties given in descending order, one required and one optional
FieldOrderAndMarkersWitness ==
    /\ Done
    /\ \E n \in Declared :
          LET items == definitions[n].properties IN
          /\ Len(items) >= 2
          /\ LexBefore(items[2].name, items[1].name)
          /\ items[1].name \in definitions[n].required
          /\ items[2].name \notin definitions[n].required

====
